---- MODULE Spec2Model ----
(***************************************************************************)
(* Model of asus_bios_renamer: the file validator (validate_file) and the  *)
(* `$BOOTEFI$` header locator / field extractor (BiosInfo::from_file) of    *)
(* src/src/bios.rs.                                                         *)
(*                                                                          *)
(* Bytes are naturals 0..255, a file is a sequence of bytes, a Rust String  *)
(* is a sequence of Unicode scalar values (naturals).                       *)
(***************************************************************************)
EXTENDS Integers, Sequences, FiniteSets, TLC

(***************************************************************************)
(* Program constants (src/src/bios.rs:31-66)                                *)
(***************************************************************************)
INFO_HEADER_LEN == 9

\* "$BOOTEFI$"
BIOS_INFO_HEADER == <<36, 66, 79, 79, 84, 69, 70, 73, 36>>

BIOS_INFO_SIZE == 158

BOARD_NAME_OFFSET == 5

BOARD_NAME_LEN == 60

BRAND_NAME_OFFSET == 65

BRAND_NAME_LEN == 20

DATE_OFFSET == 86

DATE_LEN == 10

BUILD_NUMBER_OFFSET == 97

BUILD_NUMBER_LEN == 14

CAP_NAME_OFFSET == 136

CAP_NAME_LEN == 12

MIB_FACTOR == 1048576

MAX_FILE_SIZE == 150 * MIB_FACTOR

\* the byte '$' the probe compares against (bios.rs:151)
DOLLAR == 36

\* U+FFFD, the character String::from_utf8_lossy substitutes
REPLACEMENT_CHARACTER == 65533

(***************************************************************************)
(* Bounds of the model                                                      *)
(***************************************************************************)
\* longest run of bytes placed in front of the first marker candidate
MaxPre == 2

\* how far around MAX_FILE_SIZE (and around 0) the validator's sizes range
SizeSpread == 4

\* read errors the environment may inject into one from_file call
MaxIoErrors == 2

(***************************************************************************)
(* Sequence helpers                                                         *)
(***************************************************************************)
Min(a, b) == IF a <= b THEN a ELSE b

\* s followed by copies of p up to length n (s cut at n when longer)
Pad(s, n, p) == [i \in 1..n |-> IF i <= Len(s) THEN s[i] ELSE p]

\* the sequence s without its first k elements
Drop(s, k) == SubSeq(s, k + 1, Len(s))

(***************************************************************************)
(* String::from_utf8_lossy (bios.rs:122): well-formed UTF-8 sequences       *)
(* decode to their scalar value; every maximal ill-formed prefix is replaced *)
(* by one U+FFFD.                                                            *)
(***************************************************************************)
IsCont(x) == x \in 128..191

\* decoding of the first character of the non-empty byte sequence b:
\* [valid, len (bytes consumed), cp (scalar value)]
Utf8Step(b) ==
  LET n == Len(b)
      B(i) == IF i <= n THEN b[i] ELSE -1
      b0 == b[1]
      Bad(k) == [valid |-> FALSE, len |-> k, cp |-> REPLACEMENT_CHARACTER]
      Good(k, c) == [valid |-> TRUE, len |-> k, cp |-> c]
  IN IF b0 < 128 THEN Good(1, b0)
     ELSE IF b0 \in 194..223 THEN
       IF IsCont(B(2)) THEN Good(2, (b0 - 192) * 64 + (B(2) - 128)) ELSE Bad(1)
     ELSE IF b0 \in 224..239 THEN
       LET lo == IF b0 = 224 THEN 160 ELSE 128
           hi == IF b0 = 237 THEN 159 ELSE 191
       IN IF B(2) \notin lo..hi THEN Bad(1)
          ELSE IF ~IsCont(B(3)) THEN Bad(2)
          ELSE Good(3, (b0 - 224) * 4096 + (B(2) - 128) * 64 + (B(3) - 128))
     ELSE IF b0 \in 240..244 THEN
       LET lo == IF b0 = 240 THEN 144 ELSE 128
           hi == IF b0 = 244 THEN 143 ELSE 191
       IN IF B(2) \notin lo..hi THEN Bad(1)
          ELSE IF ~IsCont(B(3)) THEN Bad(2)
          ELSE IF ~IsCont(B(4)) THEN Bad(3)
          ELSE Good(4, (b0 - 240) * 262144 + (B(2) - 128) * 4096
                        + (B(3) - 128) * 64 + (B(4) - 128))
     ELSE Bad(1)

RECURSIVE from_utf8_lossy(_)
from_utf8_lossy(b) ==
  IF b = <<>> THEN <<>>
  ELSE LET st == Utf8Step(b)
       IN <<st.cp>> \o from_utf8_lossy(Drop(b, st.len))

RECURSIVE trim_after_null(_)
\* the characters of s before its first NUL (bios.rs:105-116)
trim_after_null(s) ==
  IF s = <<>> \/ s[1] = 0 THEN <<>>
  ELSE <<s[1]>> \o trim_after_null(Tail(s))

\* the value that stands for a panic of the slice index `&bytes[range]`
PANIC == <<-1>>

\* bytes_to_string slicing one byte further on (an off-by-one in the range)
bytes_to_string_Shifted(bytes, read_pos, read_len) ==
  IF read_pos + 1 + read_len > Len(bytes) THEN PANIC
  ELSE trim_after_null(from_utf8_lossy(
         SubSeq(bytes, read_pos + 2, read_pos + 1 + read_len)))

\* bytes_to_string (bios.rs:118-125): the slice panics when the range ends
\* past the bytes read
bytes_to_string(bytes, read_pos, read_len) ==
  IF read_pos + read_len > Len(bytes) THEN PANIC
  ELSE trim_after_null(from_utf8_lossy(
         SubSeq(bytes, read_pos + 1, read_pos + read_len)))

(***************************************************************************)
(* NaiveDate::parse_from_str(&build_date, "%m/%d/%Y").unwrap_or_default()   *)
(* (bios.rs:205-206).  The format is the item list                          *)
(*   Numeric(Month) Literal("/") Numeric(Day) Literal("/") Numeric(Year):   *)
(* a numeric item skips leading white space and takes 1..width digits       *)
(* (width 2 for month and day, 4 for an unsigned year, any number of digits *)
(* after an explicit sign); input left over after the last item is an error; *)
(* the parsed numbers must form a date of the proleptic Gregorian calendar. *)
(***************************************************************************)
IsDigit(c) == c \in 48..57

IsSpace(c) == c \in {9, 10, 11, 12, 13, 32}

RECURSIVE TrimStart(_)
TrimStart(s) == IF s # <<>> /\ IsSpace(s[1]) THEN TrimStart(Tail(s)) ELSE s

RECURSIVE DigitRun(_, _)
\* number of leading digits of s, at most max
DigitRun(s, max) ==
  IF max = 0 \/ s = <<>> \/ ~IsDigit(s[1]) THEN 0
  ELSE 1 + DigitRun(Tail(s), max - 1)

RECURSIVE DigitsValue(_)
DigitsValue(s) ==
  IF s = <<>> THEN 0
  ELSE DigitsValue(SubSeq(s, 1, Len(s) - 1)) * 10 + (s[Len(s)] - 48)

\* scan::number(s, 1, max)
ScanNumber(s, max) ==
  LET k == DigitRun(s, max)
  IN [ok |-> k >= 1, val |-> DigitsValue(SubSeq(s, 1, k)), rest |-> Drop(s, k)]

\* a numeric item: month and day are unsigned, the year may carry a sign
ScanItem(s0, width, signed) ==
  LET s == TrimStart(s0)
  IN IF signed /\ s # <<>> /\ s[1] \in {43, 45} THEN
       LET r == ScanNumber(Tail(s), Len(s))
       IN [ok |-> r.ok, val |-> IF s[1] = 45 THEN 0 - r.val ELSE r.val,
           rest |-> r.rest]
     ELSE ScanNumber(s, width)

\* the literal "/" of the format
ScanSlash(s) == [ok |-> s # <<>> /\ s[1] = 47, rest |-> IF s = <<>> THEN s ELSE Tail(s)]

IsLeapYear(y) == (y % 4 = 0 /\ y % 100 # 0) \/ y % 400 = 0

DaysInMonth(y, m) ==
  IF m \in {4, 6, 9, 11} THEN 30
  ELSE IF m = 2 THEN (IF IsLeapYear(y) THEN 29 ELSE 28)
  ELSE 31

\* NaiveDate::default(): January 1, 1970
DefaultDate == [y |-> 1970, m |-> 1, d |-> 1]

\* the format read day-first, "%d/%m/%Y"
parse_from_str_DayFirst(s) ==
  LET dd == ScanItem(s, 2, FALSE)
      l1 == ScanSlash(dd.rest)
      mm == ScanItem(l1.rest, 2, FALSE)
      l2 == ScanSlash(mm.rest)
      yy == ScanItem(l2.rest, 4, TRUE)
  IN IF dd.ok /\ l1.ok /\ mm.ok /\ l2.ok /\ yy.ok /\ yy.rest = <<>>
        /\ mm.val \in 1..12 /\ dd.val \in 1..DaysInMonth(yy.val, mm.val)
     THEN [y |-> yy.val, m |-> mm.val, d |-> dd.val]
     ELSE DefaultDate

\* parse_from_str(s, "%m/%d/%Y").unwrap_or_default()
parse_from_str(s) ==
  LET mm == ScanItem(s, 2, FALSE)
      l1 == ScanSlash(mm.rest)
      dd == ScanItem(l1.rest, 2, FALSE)
      l2 == ScanSlash(dd.rest)
      yy == ScanItem(l2.rest, 4, TRUE)
  IN IF mm.ok /\ l1.ok /\ dd.ok /\ l2.ok /\ yy.ok /\ yy.rest = <<>>
        /\ mm.val \in 1..12 /\ dd.val \in 1..DaysInMonth(yy.val, mm.val)
     THEN [y |-> yy.val, m |-> mm.val, d |-> dd.val]
     ELSE DefaultDate

(***************************************************************************)
(* Field extraction of from_file (bios.rs:200-217) on the bytes read into   *)
(* info_chunk.  The five slices are taken in source order; the first one     *)
(* that ends past the chunk panics.                                          *)
(***************************************************************************)
NoRecord(kind) ==
  [kind |-> kind, board_name |-> <<>>, brand |-> <<>>, build_date |-> DefaultDate,
   build_number |-> <<>>, expected_name |-> <<>>]

DecodeFields(chunk) ==
  LET board_name == bytes_to_string(chunk, BOARD_NAME_OFFSET, BOARD_NAME_LEN)
      brand == bytes_to_string(chunk, BRAND_NAME_OFFSET, BRAND_NAME_LEN)
      date_str == bytes_to_string(chunk, DATE_OFFSET, DATE_LEN)
      build_number == bytes_to_string(chunk, BUILD_NUMBER_OFFSET, BUILD_NUMBER_LEN)
      cap_name == bytes_to_string(chunk, CAP_NAME_OFFSET, CAP_NAME_LEN)
  IN IF PANIC \in {board_name, brand, date_str, build_number, cap_name}
     THEN NoRecord("Panic")
     ELSE [kind |-> "Ok", board_name |-> board_name, brand |-> brand,
           build_date |-> parse_from_str(date_str),
           build_number |-> build_number, expected_name |-> cap_name]

(***************************************************************************)
(* validate_file (bios.rs:277-290) on the metadata of the open file         *)
(***************************************************************************)
\* validate_file testing the size before the file type
validate_file_SizeFirst(meta) ==
  IF ~meta.meta_ok THEN "Metadata"
  ELSE IF meta.len > MAX_FILE_SIZE THEN "FileTooLarge"
  ELSE IF ~meta.is_file THEN "NotRegularFile"
  ELSE "Ok"

\* validate_file rejecting a file of exactly MAX_FILE_SIZE bytes
validate_file_Exclusive(meta) ==
  IF ~meta.meta_ok THEN "Metadata"
  ELSE IF ~meta.is_file THEN "NotRegularFile"
  ELSE IF meta.len >= MAX_FILE_SIZE THEN "FileTooLarge"
  ELSE "Ok"

validate_file(meta) ==
  IF ~meta.meta_ok THEN "Metadata"
  ELSE IF ~meta.is_file THEN "NotRegularFile"
  ELSE IF meta.len > MAX_FILE_SIZE THEN "FileTooLarge"
  ELSE "Ok"

(***************************************************************************)
(* Input files of the model                                                 *)
(***************************************************************************)
\* all sequences over S of length 0..n
SeqsUpTo(S, n) == UNION {[1..k -> S] : k \in 0..n}

\* a text placed in a field window: the bytes s, padded with p to the window's
\* length; with e set, the window's last byte is 0xC3, the lead byte of a
\* two-byte character cut off by the end of the window
FieldBytes(t, len) ==
  LET w == Pad(t.s, len, t.p)
  IN IF t.e THEN [w EXCEPT ![len] = 195] ELSE w

\* a 158-byte block with the five windows filled and `fill` everywhere else
MkBlock(board, brand, date, build, cap, fill) ==
  [i \in 1..BIOS_INFO_SIZE |->
     LET o == i - 1
         In(off, len) == o >= off /\ o < off + len
     IN IF In(BOARD_NAME_OFFSET, BOARD_NAME_LEN)
          THEN FieldBytes(board, BOARD_NAME_LEN)[i - BOARD_NAME_OFFSET]
        ELSE IF In(BRAND_NAME_OFFSET, BRAND_NAME_LEN)
          THEN FieldBytes(brand, BRAND_NAME_LEN)[i - BRAND_NAME_OFFSET]
        ELSE IF In(DATE_OFFSET, DATE_LEN)
          THEN FieldBytes(date, DATE_LEN)[i - DATE_OFFSET]
        ELSE IF In(BUILD_NUMBER_OFFSET, BUILD_NUMBER_LEN)
          THEN FieldBytes(build, BUILD_NUMBER_LEN)[i - BUILD_NUMBER_OFFSET]
        ELSE IF In(CAP_NAME_OFFSET, CAP_NAME_LEN)
          THEN FieldBytes(cap, CAP_NAME_LEN)[i - CAP_NAME_OFFSET]
        ELSE fill]

Txt(s, p) == [s |-> s, p |-> p, e |-> FALSE]

\* "01/02/2020"
DateJan2 == <<48, 49, 47, 48, 50, 47, 50, 48, 50, 48>>

\* "ROG", "ASUS", "01/02/2020", "0805", "RSX570.CAP"
SampleBlock ==
  MkBlock(Txt(<<82, 79, 71>>, 0), Txt(<<65, 83, 85, 83>>, 0), Txt(DateJan2, 0),
          Txt(<<48, 56, 48, 53>>, 0),
          Txt(<<82, 83, 88, 53, 55, 48, 46, 67, 65, 80>>, 0), 0)

\* "$AOOTEFI$" and "$BOOTEFIA": windows that start with '$' and are not the marker
NearMarkerSecond == <<36, 65, 79, 79, 84, 69, 70, 73, 36>>

NearMarkerLast == <<36, 66, 79, 79, 84, 69, 70, 73, 65>>

\* numbers of bytes after the last candidate: around each slice end of from_file
TailLens == {0, 1, 64, 65, 95, 96, 147, 148, 157, 158, 159}

\* files for the marker search: bytes in front, a candidate, a gap, a second
\* candidate, and a block cut at one of TailLens
SearchFiles ==
  {pre \o c1 \o gap \o c2 \o SubSeq(SampleBlock \o <<0>>, 1, n) :
     pre \in SeqsUpTo({DOLLAR, 65}, MaxPre),
     c1 \in {<<>>, BIOS_INFO_HEADER, NearMarkerSecond, NearMarkerLast},
     gap \in {<<>>, <<DOLLAR>>, <<65>>},
     c2 \in {<<>>, BIOS_INFO_HEADER},
     n \in TailLens}

\* texts for the four string fields: empty, "AB", "A\0B", "\0A", an invalid
\* byte, "A" + U+00E9, a lone lead byte, U+20AC; padded with NUL or with 'Z'
TextSamples ==
  {Txt(s, p) : s \in {<<>>, <<65, 66>>, <<65, 0, 66>>, <<0, 65>>, <<255>>,
                      <<65, 195, 169>>, <<195>>, <<226, 130, 172>>},
               p \in {0, 90}}
  \cup {[s |-> <<>>, p |-> 90, e |-> TRUE]}

\* files for the string fields: the marker and a full block
TextFiles ==
  {BIOS_INFO_HEADER \o MkBlock(a, b, Txt(d, 0), b, a, fill) :
     a \in TextSamples, b \in TextSamples, d \in {DateJan2, <<>>},
     fill \in {0, 169}}

\* "01" "1" "02" "13" "00" "ab"
MonthTexts == {<<48, 49>>, <<49>>, <<48, 50>>, <<49, 51>>, <<48, 48>>, <<97, 98>>}

\* "02" "2" "29" "30" "31" "00"
DayTexts == {<<48, 50>>, <<50>>, <<50, 57>>, <<51, 48>>, <<51, 49>>, <<48, 48>>}

\* "2020" "2021" "1900" "2000" "20" "abcd"
YearTexts == {<<50, 48, 50, 48>>, <<50, 48, 50, 49>>, <<49, 57, 48, 48>>,
              <<50, 48, 48, 48>>, <<50, 48>>, <<97, 98, 99, 100>>}

\* month/day/year texts, the all-NUL window, "01-02-2020", "01/02/20200"
DateTexts ==
  {m \o <<47>> \o d \o <<47>> \o y :
     m \in MonthTexts, d \in DayTexts, y \in YearTexts}
  \cup {<<>>, <<48, 49, 45, 48, 50, 45, 50, 48, 50, 48>>}

\* files for the date field: the marker and a full block
DateFiles ==
  {BIOS_INFO_HEADER \o MkBlock(a, a, Txt(d, p), a, a, 0) :
     a \in {Txt(<<65, 66>>, 0), Txt(<<255>>, 90)}, d \in DateTexts, p \in {0, 90}}

Files == SearchFiles \cup TextFiles \cup DateFiles

\* metadata of an open handle: a regular file reports its length; the empty
\* content also stands for a directory and for an entry whose metadata cannot
\* be read
MetaOf(f) ==
  {[meta_ok |-> TRUE, is_file |-> TRUE, len |-> Len(f)]}
  \cup (IF f = <<>>
        THEN {[meta_ok |-> TRUE, is_file |-> FALSE, len |-> 4096],
              [meta_ok |-> FALSE, is_file |-> FALSE, len |-> 0]}
        ELSE {})

\* sizes for the validator: around 0, around MAX_FILE_SIZE, and twice the ceiling
SizeSamples ==
  (0..SizeSpread)
  \cup ((MAX_FILE_SIZE - SizeSpread)..(MAX_FILE_SIZE + SizeSpread))
  \cup {2 * MAX_FILE_SIZE}

MetaSamples ==
  [meta_ok : BOOLEAN, is_file : BOOLEAN, len : SizeSamples]

(***************************************************************************)
(* State                                                                    *)
(***************************************************************************)
VARIABLES
  file,        \* content of the file behind the handle
  meta,        \* what bios_file.metadata() reports for the handle
  pos,         \* read position of the handle (through the BufReader)
  pc,          \* where the caller / from_file stands
  validation,  \* result of validate_file: "none" before the call
  mini_buf,    \* the one-byte probe buffer of seek_to_bootefi_block
  buf,         \* the nine-byte candidate buffer of seek_to_bootefi_block
  read_pos,    \* the byte counter of seek_to_bootefi_block
  found,       \* its return value: "pending", "None" or "Some" (of read_pos)
  info_chunk,  \* the bytes read_to_end put into info_chunk
  result,      \* what from_file returned: a record, an error, or a panic
  run,         \* 1 for the first open of the file, 2 for the second
  first,       \* what from_file returned on the first open
  io_failed,   \* a read of this call failed with an error other than EOF
  n_err,       \* number of read errors injected into this call
  prog,        \* the program that owns the handle: "core", "gui" or "cli"
  gpc,         \* where that program stands between its handlers
  msg,         \* the AppMsg whose handler runs or ran last, "none" before any
  disk,        \* the file system the programs see: path -> entry
  sel,         \* the path of the attempt in progress (selected_path, bios_path)
  input_path,  \* App::input_path
  bios_info,   \* App::bios_info
  alert,       \* message of the alert the last handler showed, "" for none
  last_copy    \* the fs::copy / fs::rename call of the last handler, if any

\* the fields of App and the world around it
guiVars == <<prog, gpc, msg, disk, sel, input_path, bios_info, alert, last_copy>>

vars == <<file, meta, pos, pc, validation, mini_buf, buf, read_pos, found,
          info_chunk, result, run, first, io_failed, n_err, prog, gpc, msg,
          disk, sel, input_path, bios_info, alert, last_copy>>

\* Option::None of a path, of a record, and "no copy was called"
NoPath == [dir |-> 0, name |-> <<>>]

NoInfo == NoRecord("none")

NoCopy == [op |-> "none", src |-> NoPath, dst |-> NoPath, ok |-> FALSE]

\* the parsing core on its own: no application state around the handle
CoreOnly ==
  /\ prog = "core"
  /\ gpc = "idle"
  /\ msg = "none"
  /\ disk = <<>>
  /\ sel = NoPath
  /\ input_path = NoPath
  /\ bios_info = NoInfo
  /\ alert = ""
  /\ last_copy = NoCopy

ZeroBuf == [i \in 1..INFO_HEADER_LEN |-> 0]

\* the error from_file builds when the search returns None (bios.rs:187-190)
MissingHeader == NoRecord("InvalidData: Missing $BOOTEFI$ header in file")

\* a read error handed on by `?` (bios.rs:198)
IoError == NoRecord("IoError")

\* File::open: a handle at offset 0, nothing validated or parsed yet
Opened(f, m) ==
  /\ file = f
  /\ meta = m
  /\ pos = 0
  /\ pc = "validate"
  /\ validation = "none"
  /\ mini_buf = <<0>>
  /\ buf = ZeroBuf
  /\ read_pos = 0
  /\ found = "pending"
  /\ info_chunk = <<>>
  /\ result = NoRecord("none")
  /\ io_failed = FALSE
  /\ n_err = 0

Init ==
  /\ \E f \in Files : \E m \in MetaOf(f) : Opened(f, m)
  /\ run = 1
  /\ first = NoRecord("none")
  /\ CoreOnly

\* the validator alone, on metadata of every kind; the content is not read
InitValidate ==
  /\ \E m \in MetaSamples : Opened(<<>>, m)
  /\ run = 1
  /\ first = NoRecord("none")
  /\ CoreOnly

(***************************************************************************)
(* The file system the two programs work on                                 *)
(***************************************************************************)
\* the expected names of the two images: "RSX570.CAP" and "B.CAP"
NameA == <<82, 83, 88, 53, 55, 48, 46, 67, 65, 80>>

NameB == <<66, 46, 67, 65, 80>>

\* "a", "n", "e", "t", "g", "d", "m", "x": the other file names of the model
OtherNames ==
  {<<97>>, <<110>>, <<101>>, <<116>>, <<103>>, <<100>>, <<109>>, <<120>>}

Names == OtherNames \cup {NameA, NameB}

\* folder 1 holds the input files, 2 is empty and writable, 3 is read-only,
\* the metadata of 4 cannot be read
Dirs == {1, 2, 3, 4}

Paths == [dir : Dirs, name : Names]

\* an image whose block comes right after the marker at offset 0
FileA == BIOS_INFO_HEADER \o SampleBlock

\* "ROG", "ASUS", "01/02/2020", "0806", "B.CAP"
BlockB ==
  MkBlock(Txt(<<82, 79, 71>>, 0), Txt(<<65, 83, 85, 83>>, 0), Txt(DateJan2, 0),
          Txt(<<48, 56, 48, 54>>, 0), Txt(NameB, 0), 0)

\* a second image, its marker at offset 1
FileB == <<65>> \o BIOS_INFO_HEADER \o BlockB

\* a file without the marker, ending inside a candidate window
FileN == <<65, DOLLAR, 65>>

\* a file without the marker and without a '$'
FileE == <<65>>

\* an image cut off inside the board name
FileT == BIOS_INFO_HEADER \o SubSeq(SampleBlock, 1, 20)

\* what a path leads to
Absent ==
  [kind |-> "absent", content |-> <<>>,
   meta |-> [meta_ok |-> FALSE, is_file |-> FALSE, len |-> 0]]

RegularFile(c) ==
  [kind |-> "file", content |-> c,
   meta |-> [meta_ok |-> TRUE, is_file |-> TRUE, len |-> Len(c)]]

\* a file one byte over the ceiling; its bytes are not spelled out
BigFile ==
  [kind |-> "file", content |-> <<>>,
   meta |-> [meta_ok |-> TRUE, is_file |-> TRUE, len |-> MAX_FILE_SIZE + 1]]

Directory ==
  [kind |-> "dir", content |-> <<>>,
   meta |-> [meta_ok |-> TRUE, is_file |-> FALSE, len |-> 4096]]

\* a file whose handle opens and whose metadata() call fails
NoMetaFile ==
  [kind |-> "file", content |-> <<>>,
   meta |-> [meta_ok |-> FALSE, is_file |-> FALSE, len |-> 0]]

InitialDisk ==
  [p \in Paths |->
     IF p.dir # 1 THEN Absent
     ELSE IF p.name = <<97>> THEN RegularFile(FileA)
     ELSE IF p.name = NameB THEN RegularFile(FileB)
     ELSE IF p.name = <<110>> THEN RegularFile(FileN)
     ELSE IF p.name = <<101>> THEN RegularFile(FileE)
     ELSE IF p.name = <<116>> THEN RegularFile(FileT)
     ELSE IF p.name = <<103>> THEN BigFile
     ELSE IF p.name = <<100>> THEN Directory
     ELSE IF p.name = <<109>> THEN NoMetaFile
     ELSE Absent]

\* the handle is dropped when the handler returns: nothing of the call is left
CloseHandle ==
  /\ file' = <<>>
  /\ meta' = Absent.meta
  /\ pos' = 0
  /\ pc' = "closed"
  /\ validation' = "none"
  /\ mini_buf' = <<0>>
  /\ buf' = ZeroBuf
  /\ read_pos' = 0
  /\ found' = "pending"
  /\ info_chunk' = <<>>
  /\ result' = NoRecord("none")
  /\ io_failed' = FALSE
  /\ n_err' = 0

\* File::open(path): a handle at offset 0 on what the path leads to
OpenHandle(e) ==
  /\ file' = e.content
  /\ meta' = e.meta
  /\ pos' = 0
  /\ pc' = "validate"
  /\ validation' = "none"
  /\ mini_buf' = <<0>>
  /\ buf' = ZeroBuf
  /\ read_pos' = 0
  /\ found' = "pending"
  /\ info_chunk' = <<>>
  /\ result' = NoRecord("none")
  /\ io_failed' = FALSE
  /\ n_err' = 0

\* no handle is open
Closed ==
  /\ file = <<>>
  /\ meta = Absent.meta
  /\ pos = 0
  /\ pc = "closed"
  /\ validation = "none"
  /\ mini_buf = <<0>>
  /\ buf = ZeroBuf
  /\ read_pos = 0
  /\ found = "pending"
  /\ info_chunk = <<>>
  /\ result = NoRecord("none")
  /\ io_failed = FALSE
  /\ n_err = 0
  /\ run = 1
  /\ first = NoRecord("none")

(***************************************************************************)
(* The caller: validate_file, then from_file (gui_main.rs:144-147, 163)     *)
(***************************************************************************)
Validate ==
  /\ pc = "validate"
  /\ validation' = validate_file(meta)
  /\ pc' = IF validation' = "Ok" THEN "from_file" ELSE "done"
  /\ UNCHANGED <<file, meta, pos, mini_buf, buf, read_pos, found, info_chunk,
                 result, run, first, io_failed, n_err>>
  /\ UNCHANGED guiVars

\* from_file wraps the handle in a BufReader and enters the search with
\* fresh buffers and a zero counter (bios.rs:183, 136-139)
FromFileEnter ==
  /\ pc = "from_file"
  /\ mini_buf' = <<0>>
  /\ buf' = ZeroBuf
  /\ read_pos' = 0
  /\ pc' = "probe"
  /\ UNCHANGED <<file, meta, pos, validation, found, info_chunk, result, run,
                 first, io_failed, n_err>>
  /\ UNCHANGED guiVars

(***************************************************************************)
(* seek_to_bootefi_block (bios.rs:135-179), one action per read or seek     *)
(***************************************************************************)
\* the comparison taking any window that starts and ends with '$'
HeaderMatches_Ends(b) == b[1] = DOLLAR /\ b[INFO_HEADER_LEN] = DOLLAR

\* the comparison leaving out the last byte
HeaderMatches_Prefix(b) ==
  SubSeq(b, 1, INFO_HEADER_LEN - 1) = SubSeq(BIOS_INFO_HEADER, 1, INFO_HEADER_LEN - 1)

\* buf == BIOS_INFO_HEADER (bios.rs:175)
HeaderMatches(b) == b = BIOS_INFO_HEADER

\* read_exact(&mut mini_buf) at end of stream: the search returns None and
\* from_file the missing-header error
ProbeEof ==
  /\ pc = "probe"
  /\ pos >= Len(file)
  /\ found' = "None"
  /\ result' = MissingHeader
  /\ pc' = "done"
  /\ UNCHANGED <<file, meta, pos, validation, mini_buf, buf, read_pos,
                 info_chunk, run, first, io_failed, n_err>>
  /\ UNCHANGED guiVars

\* read_exact(&mut mini_buf) reads one byte; a byte other than '$' is counted
\* and the loop continues, '$' leads to the step back
ProbeByte ==
  /\ pc = "probe"
  /\ pos < Len(file)
  /\ mini_buf' = <<file[pos + 1]>>
  /\ pos' = pos + 1
  /\ IF mini_buf'[1] # DOLLAR
       THEN read_pos' = read_pos + 1 /\ pc' = "probe"
       ELSE read_pos' = read_pos /\ pc' = "seek_back"
  /\ UNCHANGED <<file, meta, validation, buf, found, info_chunk, result, run,
                 first, io_failed, n_err>>
  /\ UNCHANGED guiVars

\* the step back going two bytes back instead of one
SeekBack_Two ==
  /\ pc = "seek_back"
  /\ pos >= 1
  /\ pos' = IF pos >= 2 THEN pos - 2 ELSE 0
  /\ pc' = "window"
  /\ UNCHANGED <<file, meta, validation, mini_buf, buf, read_pos, found,
                 info_chunk, result, run, first, io_failed, n_err>>
  /\ UNCHANGED guiVars

\* reader.seek_relative(-1)
SeekBack ==
  /\ pc = "seek_back"
  /\ pos >= 1
  /\ pos' = pos - 1
  /\ pc' = "window"
  /\ UNCHANGED <<file, meta, validation, mini_buf, buf, read_pos, found,
                 info_chunk, result, run, first, io_failed, n_err>>
  /\ UNCHANGED guiVars

\* read_exact(&mut buf) with fewer than nine bytes left: the bytes left are
\* consumed, the search returns None
WindowEof ==
  /\ pc = "window"
  /\ Len(file) - pos < INFO_HEADER_LEN
  /\ buf' = [i \in 1..INFO_HEADER_LEN |->
               IF pos + i <= Len(file) THEN file[pos + i] ELSE buf[i]]
  /\ pos' = Len(file)
  /\ found' = "None"
  /\ result' = MissingHeader
  /\ pc' = "done"
  /\ UNCHANGED <<file, meta, validation, mini_buf, read_pos, info_chunk, run,
                 first, io_failed, n_err>>
  /\ UNCHANGED guiVars

\* read_exact(&mut buf) reads the nine-byte window; read_pos += 9; on a match
\* the search returns Some(read_pos), otherwise the loop continues
WindowRead ==
  /\ pc = "window"
  /\ Len(file) - pos >= INFO_HEADER_LEN
  /\ buf' = SubSeq(file, pos + 1, pos + INFO_HEADER_LEN)
  /\ pos' = pos + INFO_HEADER_LEN
  /\ read_pos' = read_pos + INFO_HEADER_LEN
  /\ IF HeaderMatches(buf')
       THEN found' = "Some" /\ pc' = "read_block"
       ELSE found' = found /\ pc' = "probe"
  /\ UNCHANGED <<file, meta, validation, mini_buf, info_chunk, result, run,
                 first, io_failed, n_err>>
  /\ UNCHANGED guiVars

(***************************************************************************)
(* from_file after the search (bios.rs:194-217)                             *)
(***************************************************************************)
\* reader.take(BIOS_INFO_SIZE).read_to_end(&mut info_chunk): up to 158 bytes,
\* fewer at end of stream, without an error
ReadBlock ==
  /\ pc = "read_block"
  /\ info_chunk' = SubSeq(file, pos + 1, Min(pos + BIOS_INFO_SIZE, Len(file)))
  /\ pos' = Min(pos + BIOS_INFO_SIZE, Len(file))
  /\ pc' = "decode"
  /\ UNCHANGED <<file, meta, validation, mini_buf, buf, read_pos, found,
                 result, run, first, io_failed, n_err>>
  /\ UNCHANGED guiVars

\* the five bytes_to_string calls, the date parse and the record
Decode ==
  /\ pc = "decode"
  /\ result' = DecodeFields(info_chunk)
  /\ pc' = "done"
  /\ UNCHANGED <<file, meta, pos, validation, mini_buf, buf, read_pos, found,
                 info_chunk, run, first, io_failed, n_err>>
  /\ UNCHANGED guiVars

\* the second open keeping the position the first handle ended at
Reopen_SamePosition ==
  /\ pc = "done"
  /\ run = 1
  /\ run' = 2
  /\ first' = result
  /\ pos' = pos
  /\ pc' = "validate"
  /\ validation' = "none"
  /\ found' = "pending"
  /\ info_chunk' = <<>>
  /\ result' = NoRecord("none")
  /\ io_failed' = FALSE
  /\ n_err' = 0
  /\ UNCHANGED <<file, meta, mini_buf, buf, read_pos>>
  /\ UNCHANGED guiVars

\* the same path is opened a second time (File::open, gui_main.rs:136): a
\* fresh handle at offset 0; the locals of the first call are gone
Reopen ==
  /\ pc = "done"
  /\ run = 1
  /\ run' = 2
  /\ first' = result
  /\ pos' = 0
  /\ pc' = "validate"
  /\ validation' = "none"
  /\ found' = "pending"
  /\ info_chunk' = <<>>
  /\ result' = NoRecord("none")
  /\ io_failed' = FALSE
  /\ n_err' = 0
  /\ UNCHANGED <<file, meta, mini_buf, buf, read_pos>>
  /\ UNCHANGED guiVars

Next ==
  \/ Validate
  \/ FromFileEnter
  \/ ProbeEof
  \/ ProbeByte
  \/ SeekBack
  \/ WindowEof
  \/ WindowRead
  \/ ReadBlock
  \/ Decode
  \/ Reopen

Spec == Init /\ [][Next]_vars

\* one open of the file; the calls are synchronous and run on the calling
\* thread, so an enabled step is eventually taken
NextOnce ==
  \/ Validate
  \/ FromFileEnter
  \/ ProbeEof
  \/ ProbeByte
  \/ SeekBack
  \/ WindowEof
  \/ WindowRead
  \/ ReadBlock
  \/ Decode

\* files for the termination of the search: as SearchFiles, with short tails
ScanFiles ==
  {pre \o c1 \o gap \o c2 \o SubSeq(SampleBlock, 1, n) :
     pre \in SeqsUpTo({DOLLAR, 65}, MaxPre),
     c1 \in {<<>>, BIOS_INFO_HEADER, NearMarkerSecond, NearMarkerLast},
     gap \in {<<>>, <<DOLLAR>>, <<65>>},
     c2 \in {<<>>, BIOS_INFO_HEADER},
     n \in {0, 1, INFO_HEADER_LEN}}

InitScan ==
  /\ \E f \in ScanFiles : \E m \in MetaOf(f) : Opened(f, m)
  /\ run = 1
  /\ first = NoRecord("none")
  /\ CoreOnly

SpecScan == InitScan /\ [][NextOnce]_vars /\ WF_vars(NextOnce)

NextValidate == Validate

SpecValidate == InitValidate /\ [][NextValidate]_vars

(***************************************************************************)
(* Read errors other than end of stream.  Both read_exact calls of the      *)
(* search drop such an error in the arm `_ => {}' (bios.rs:148, 168) and go  *)
(* on with what the buffer holds; read_to_end hands it on with `?'.          *)
(***************************************************************************)
\* files for the runs with read errors
IoFiles ==
  {pre \o c1 \o c2 \o SubSeq(SampleBlock, 1, n) :
     pre \in SeqsUpTo({DOLLAR, 65}, 1),
     c1 \in {<<>>, BIOS_INFO_HEADER, NearMarkerSecond, NearMarkerLast},
     c2 \in {<<>>, BIOS_INFO_HEADER},
     n \in {0, BIOS_INFO_SIZE}}

InitIO ==
  /\ \E f \in IoFiles : \E m \in MetaOf(f) : Opened(f, m)
  /\ run = 1
  /\ first = NoRecord("none")
  /\ CoreOnly

\* the probe read fails: nothing is read, mini_buf keeps its old byte, and the
\* code goes on to test that byte
ProbeError ==
  /\ pc = "probe"
  /\ n_err < MaxIoErrors
  /\ n_err' = n_err + 1
  /\ io_failed' = TRUE
  /\ IF mini_buf[1] # DOLLAR
       THEN read_pos' = read_pos + 1 /\ pc' = "probe"
       ELSE read_pos' = read_pos /\ pc' = "seek_back"
  /\ UNCHANGED <<file, meta, pos, validation, mini_buf, buf, found, info_chunk,
                 result, run, first>>
  /\ UNCHANGED guiVars

\* seek_relative(-1) at offset 0 fails and `.expect' panics (bios.rs:157-159);
\* the probe leaves offset 0 only by reading, so this needs a failed read
SeekBackPanic ==
  /\ pc = "seek_back"
  /\ pos = 0
  /\ result' = NoRecord("Panic")
  /\ pc' = "done"
  /\ UNCHANGED <<file, meta, pos, validation, mini_buf, buf, read_pos, found,
                 info_chunk, run, first, io_failed, n_err>>
  /\ UNCHANGED guiVars

\* the window read fails after k of its nine bytes: buf holds k new bytes and
\* otherwise what it held before; the code counts nine bytes and compares
WindowError ==
  /\ pc = "window"
  /\ n_err < MaxIoErrors
  /\ \E k \in 0..Min(INFO_HEADER_LEN - 1, Len(file) - pos) :
       /\ buf' = [i \in 1..INFO_HEADER_LEN |->
                    IF i <= k THEN file[pos + i] ELSE buf[i]]
       /\ pos' = pos + k
  /\ n_err' = n_err + 1
  /\ io_failed' = TRUE
  /\ read_pos' = read_pos + INFO_HEADER_LEN
  /\ IF HeaderMatches(buf')
       THEN found' = "Some" /\ pc' = "read_block"
       ELSE found' = found /\ pc' = "probe"
  /\ UNCHANGED <<file, meta, validation, mini_buf, info_chunk, result, run,
                 first>>
  /\ UNCHANGED guiVars

\* read_to_end fails: `?' returns the error to the caller (bios.rs:196-198)
ReadBlockError ==
  /\ pc = "read_block"
  /\ n_err < MaxIoErrors
  /\ n_err' = n_err + 1
  /\ io_failed' = TRUE
  /\ result' = IoError
  /\ pc' = "done"
  /\ UNCHANGED <<file, meta, pos, validation, mini_buf, buf, read_pos, found,
                 info_chunk, run, first>>
  /\ UNCHANGED guiVars

\* one open of the file, with read errors
NextIO ==
  \/ Validate
  \/ FromFileEnter
  \/ ProbeEof
  \/ ProbeByte
  \/ SeekBack
  \/ WindowEof
  \/ WindowRead
  \/ ReadBlock
  \/ Decode
  \/ ProbeError
  \/ SeekBackPanic
  \/ WindowError
  \/ ReadBlockError

SpecIO == InitIO /\ [][NextIO]_vars

(***************************************************************************)
(* The GUI (gui_main.rs).  The component handles one message at a time:     *)
(* update() awaits the handler of SelectFile or of CopyAndRename before the  *)
(* next message is taken (gui_main.rs:407-417).                              *)
(***************************************************************************)
CoreFrame ==
  UNCHANGED <<file, meta, pos, pc, validation, mini_buf, buf, read_pos, found,
              info_chunk, result, run, first, io_failed, n_err>>

\* the paths the file dialog can hand back: the entries of folders 1 and 2
Selectable == {p \in Paths : p.dir \in {1, 2}}

InitGui ==
  /\ Closed
  /\ prog = "gui"
  /\ gpc = "idle"
  /\ msg = "none"
  /\ disk = InitialDisk
  /\ sel = NoPath
  /\ input_path = NoPath
  /\ bios_info = NoInfo
  /\ alert = ""
  /\ last_copy = NoCopy

\* the dismissed dialog leaving input_path as it was
SetInputFile_Cancelled_Kept ==
  /\ prog = "gui"
  /\ gpc = "idle"
  /\ alert' = ""
  /\ last_copy' = NoCopy
  /\ msg' = "SelectFile"
  /\ CoreFrame
  /\ UNCHANGED <<prog, gpc, disk, sel, bios_info, input_path>>

\* the file dialog is dismissed: open_future gives Err (gui_main.rs:155-158),
\* handle_select_file returns at line 180 without an alert
SetInputFile_Cancelled ==
  /\ prog = "gui"
  /\ gpc = "idle"
  /\ input_path' = NoPath
  /\ alert' = ""
  /\ last_copy' = NoCopy
  /\ msg' = "SelectFile"
  /\ CoreFrame
  /\ UNCHANGED <<prog, gpc, disk, sel, bios_info>>

\* the selected file has no local path (gui_main.rs:127-132, 173-176)
SetInputFile_NoPath ==
  /\ prog = "gui"
  /\ gpc = "idle"
  /\ input_path' = NoPath
  /\ alert' = "Failed to get path to selected file."
  /\ last_copy' = NoCopy
  /\ msg' = "SelectFile"
  /\ CoreFrame
  /\ UNCHANGED <<prog, gpc, disk, sel, bios_info>>

\* File::open(&selected_path) fails (gui_main.rs:136-142, 173-176)
SetInputFile_OpenFailed ==
  /\ prog = "gui"
  /\ gpc = "idle"
  /\ \E p \in Selectable : disk[p].kind = "absent"
  /\ input_path' = NoPath
  /\ alert' = "Failed to open selected file"
  /\ last_copy' = NoCopy
  /\ msg' = "SelectFile"
  /\ CoreFrame
  /\ UNCHANGED <<prog, gpc, disk, sel, bios_info>>

\* File::open(&selected_path) gives a handle (gui_main.rs:136-137)
SetInputFile_Opened ==
  /\ prog = "gui"
  /\ gpc = "idle"
  /\ \E p \in Selectable :
       /\ disk[p].kind # "absent"
       /\ sel' = p
       /\ OpenHandle(disk[p])
  /\ gpc' = "select"
  /\ msg' = "SelectFile"
  /\ alert' = ""
  /\ last_copy' = NoCopy
  /\ UNCHANGED <<run, first, prog, disk, input_path, bios_info>>

\* the match going on to from_file whatever validate_file returned
SetInputFile_Validate_Unchecked ==
  /\ prog = "gui"
  /\ gpc = "select"
  /\ pc = "validate"
  /\ validation' = validate_file(meta)
  /\ input_path' = sel
  /\ pc' = "from_file"
  /\ UNCHANGED <<file, meta, pos, mini_buf, buf, read_pos, found, info_chunk,
                 result, run, first, io_failed, n_err>>
  /\ UNCHANGED <<prog, gpc, msg, disk, sel, bios_info, alert, last_copy>>

\* validate_file reading one byte through the handle
SetInputFile_Validate_Reading ==
  /\ prog = "gui"
  /\ gpc = "select"
  /\ pc = "validate"
  /\ validation' = validate_file(meta)
  /\ input_path' = IF validation' = "Ok" THEN sel ELSE NoPath
  /\ pc' = IF validation' = "Ok" THEN "from_file" ELSE "done"
  /\ pos' = Min(pos + 1, Len(file))
  /\ UNCHANGED <<file, meta, mini_buf, buf, read_pos, found, info_chunk,
                 result, run, first, io_failed, n_err>>
  /\ UNCHANGED <<prog, gpc, msg, disk, sel, bios_info, alert, last_copy>>

\* match bios::validate_file(&selected_file) (gui_main.rs:144-153):
\* validate_file asks the handle for its metadata and nothing else
\* (bios.rs:277-290); Ok stores the path, an error clears it
SetInputFile_Validate ==
  /\ prog = "gui"
  /\ gpc = "select"
  /\ pc = "validate"
  /\ validation' = validate_file(meta)
  /\ input_path' = IF validation' = "Ok" THEN sel ELSE NoPath
  /\ pc' = IF validation' = "Ok" THEN "from_file" ELSE "done"
  /\ UNCHANGED <<file, meta, pos, mini_buf, buf, read_pos, found, info_chunk,
                 result, run, first, io_failed, n_err>>
  /\ UNCHANGED <<prog, gpc, msg, disk, sel, bios_info, alert, last_copy>>

\* input_path when load_input_file gave an error, the path being kept
PathAfterLoadError_Kept == input_path

\* self.input_path = None (gui_main.rs:188)
PathAfterLoadError == NoPath

\* the rest of handle_select_file (gui_main.rs:171-191): the validator's error
\* is shown; otherwise load_input_file has run from_file, stores the record on
\* Ok and hands an error back, which clears the path and is shown.  A panic of
\* from_file unwinds out of the handler and ends the application.
HandleSelectFile_Return ==
  /\ prog = "gui"
  /\ gpc = "select"
  /\ pc = "done"
  /\ IF validation # "Ok"
     THEN /\ alert' = validation
          /\ gpc' = "idle"
          /\ UNCHANGED <<input_path, bios_info>>
     ELSE IF result.kind = "Ok"
     THEN /\ bios_info' = result
          /\ gpc' = "idle"
          /\ UNCHANGED <<input_path, alert>>
     ELSE IF result.kind = "Panic"
     THEN /\ gpc' = "crashed"
          /\ UNCHANGED <<input_path, bios_info, alert>>
     ELSE /\ input_path' = PathAfterLoadError
          /\ alert' = result.kind
          /\ gpc' = "idle"
          /\ UNCHANGED bios_info
  /\ sel' = NoPath
  /\ CloseHandle
  /\ UNCHANGED <<run, first, prog, msg, disk, last_copy>>

\* what fs::metadata(&output_folder) reports
FolderMeta(d) == [meta_ok |-> d # 4, readonly |-> d = 3]

\* the write check passing for every folder
can_write_Always(d) == TRUE

\* can_write (gui_main.rs:218-222)
can_write(d) ==
  IF FolderMeta(d).meta_ok THEN ~FolderMeta(d).readonly ELSE FALSE

\* output_folder.join(cap_name), for a name of one component
join(d, name) == [dir |-> d, name |-> name]

\* std::fs::copy(src, dst) succeeding: dst is created or truncated and filled
\* from src; with src = dst the file is truncated before it is read
FsCopy(d, src, dst) ==
  [d EXCEPT ![dst] = IF src = dst THEN RegularFile(<<>>) ELSE d[src]]

\* handle_select_output_folder (gui_main.rs:194-252).  The button that sends
\* CopyAndRename is sensitive only while a record is stored (gui_main.rs:387).
\* d = 0 stands for a dismissed folder dialog.
HandleSelectOutputFolder ==
  /\ prog = "gui"
  /\ gpc = "idle"
  /\ bios_info # NoInfo
  /\ IF input_path = NoPath
     THEN /\ alert' = "Input file must be selected."
          /\ last_copy' = NoCopy
          /\ disk' = disk
     ELSE \E d \in {0} \cup Dirs :
            IF d = 0
            THEN alert' = "" /\ last_copy' = NoCopy /\ disk' = disk
            ELSE IF ~can_write(d)
            THEN /\ alert' = "Cannot write to selected folder. Please check permissions or select a different folder."
                 /\ last_copy' = NoCopy
                 /\ disk' = disk
            ELSE IF bios_info = NoInfo
            THEN alert' = "BIOS info missing." /\ last_copy' = NoCopy /\ disk' = disk
            ELSE LET target_path == join(d, bios_info.expected_name)
                 IN IF input_path = target_path
                    THEN /\ alert' = "Input and output files cannot be the same. Please choose a different location."
                         /\ last_copy' = NoCopy
                         /\ disk' = disk
                    ELSE \E ok \in BOOLEAN :
                           LET done == ok /\ disk[input_path].kind = "file"
                           IN /\ last_copy' = [op |-> "copy", src |-> input_path,
                                               dst |-> target_path, ok |-> done]
                              /\ alert' = IF done THEN "File copied and renamed!"
                                          ELSE "copy error"
                              /\ disk' = IF done
                                         THEN FsCopy(disk, input_path, target_path)
                                         ELSE disk
  /\ msg' = "CopyAndRename"
  /\ CoreFrame
  /\ UNCHANGED <<prog, gpc, sel, input_path, bios_info>>

(***************************************************************************)
(* The command line tool (main.rs:49-116)                                   *)
(***************************************************************************)
\* bios::is_file_valid is called by main.rs:57 and is not among the sources;
\* it is the Validator of the design: metadata readable, a regular file, not
\* above the ceiling
is_file_valid(m) ==
  IF ~m.meta_ok THEN "Metadata"
  ELSE IF ~m.is_file THEN "NotRegularFile"
  ELSE IF m.len > MAX_FILE_SIZE THEN "FileTooLarge"
  ELSE "Ok"

InitCli ==
  /\ Closed
  /\ prog = "cli"
  /\ gpc = "start"
  /\ msg = "none"
  /\ disk = InitialDisk
  /\ sel \in {p \in Paths : p.dir = 1}
  /\ input_path = NoPath
  /\ bios_info = NoInfo
  /\ alert = ""
  /\ last_copy = NoCopy

\* canonicalize()? and File::open()? (main.rs:52-54)
CliOpen ==
  /\ prog = "cli"
  /\ gpc = "start"
  /\ IF disk[sel].kind = "absent"
     THEN gpc' = "exit" /\ alert' = "No such file or directory" /\ CoreFrame
     ELSE gpc' = "run" /\ alert' = "" /\ OpenHandle(disk[sel])
                       /\ UNCHANGED <<run, first>>
  /\ UNCHANGED <<prog, msg, disk, sel, input_path, bios_info, last_copy>>

\* is_file_valid(&bios_file)? and the test of its answer (main.rs:57-61)
CliValidate ==
  /\ prog = "cli"
  /\ gpc = "run"
  /\ pc = "validate"
  /\ validation' = is_file_valid(meta)
  /\ pc' = IF validation' = "Ok" THEN "from_file" ELSE "done"
  /\ UNCHANGED <<file, meta, pos, mini_buf, buf, read_pos, found, info_chunk,
                 result, run, first, io_failed, n_err>>
  /\ UNCHANGED guiVars

\* the rest of main (main.rs:59-116): an error ends the program; a record
\* names the target in out_dir or beside the input, and the file is copied
\* with --copy and renamed without
CliFinish ==
  /\ prog = "cli"
  /\ gpc = "run"
  /\ pc = "done"
  /\ IF validation # "Ok"
     THEN gpc' = "exit" /\ alert' = validation /\ UNCHANGED <<disk, last_copy, bios_info>>
     ELSE IF result.kind = "Panic"
     THEN gpc' = "crashed" /\ UNCHANGED <<disk, last_copy, bios_info, alert>>
     ELSE IF result.kind # "Ok"
     THEN gpc' = "exit" /\ alert' = result.kind /\ UNCHANGED <<disk, last_copy, bios_info>>
     ELSE \E should_copy \in BOOLEAN, d \in {sel.dir, 2} :
            LET output_path == join(d, result.expected_name)
            IN /\ bios_info' = result
               /\ gpc' = "exit"
               /\ alert' = ""
               /\ last_copy' = [op |-> IF should_copy THEN "copy" ELSE "rename",
                                src |-> sel, dst |-> output_path, ok |-> TRUE]
               /\ disk' = IF should_copy THEN FsCopy(disk, sel, output_path)
                          ELSE IF sel = output_path THEN disk
                          ELSE [disk EXCEPT ![output_path] = disk[sel],
                                            ![sel] = Absent]
  /\ CloseHandle
  /\ UNCHANGED <<run, first, prog, msg, sel, input_path>>

InitApps == InitGui \/ InitCli

NextApps ==
  \/ SetInputFile_Cancelled
  \/ SetInputFile_NoPath
  \/ SetInputFile_OpenFailed
  \/ SetInputFile_Opened
  \/ SetInputFile_Validate
  \/ FromFileEnter
  \/ ProbeEof
  \/ ProbeByte
  \/ SeekBack
  \/ WindowEof
  \/ WindowRead
  \/ ReadBlock
  \/ Decode
  \/ HandleSelectFile_Return
  \/ HandleSelectOutputFolder
  \/ CliOpen
  \/ CliValidate
  \/ CliFinish

SpecApps == InitApps /\ [][NextApps]_vars

(***************************************************************************)
(* What the claims speak about                                              *)
(***************************************************************************)
\* the marker occurs in f at offset i - 1
MarkerAt(f, i) ==
  i >= 1 /\ i + INFO_HEADER_LEN - 1 <= Len(f)
  /\ \A j \in 1..INFO_HEADER_LEN : f[i + j - 1] = BIOS_INFO_HEADER[j]

ContainsMarker(f) == \E i \in 1..Len(f) : MarkerAt(f, i)

\* stream position immediately after the first occurrence of the marker
FirstMarkerEnd(f) ==
  (CHOOSE i \in 1..Len(f) :
     MarkerAt(f, i) /\ \A j \in 1..(i - 1) : ~MarkerAt(f, j)) + INFO_HEADER_LEN - 1

\* from_file has been called on a validated handle and the search is over
SearchOver == validation = "Ok" /\ pc \in {"read_block", "decode", "done"}

\* from_file has returned (or panicked)
Returned == validation = "Ok" /\ pc = "done"

\* C1: whenever the file contains the marker, the search succeeds and stops
\* with the stream position immediately after the first occurrence, whatever
\* bytes precede it
C1_FirstMarkerFound ==
  (SearchOver /\ ContainsMarker(file)) =>
    /\ found = "Some"
    /\ pc = "read_block" => pos = FirstMarkerEnd(file)

\* the error value the specification asks for when the block is cut short
TruncatedData == NoRecord("TruncatedData")

\* C2: when the marker was found and fewer than 158 bytes follow it, from_file
\* returns a truncated-data error: no panic, no record
C2_TruncationReported ==
  (Returned /\ found = "Some" /\ Len(file) - read_pos < BIOS_INFO_SIZE) =>
    result = TruncatedData

\* C3: a file without the marker (every file shorter than 9 bytes is one)
\* makes from_file return the missing-header error: no panic, no record
C3_MissingHeaderReported ==
  (Returned /\ ~ContainsMarker(file)) =>
    /\ result = MissingHeader
    /\ found = "None"

\* a 10-byte file "$BOOTEFIA$": the window at offset 0 was compared and
\* rejected, the '$' at offset 9 lies in the last 8 bytes
C3_Witness ==
  /\ Returned
  /\ file = NearMarkerLast \o <<DOLLAR>>
  /\ buf[INFO_HEADER_LEN] = 65
  /\ mini_buf = <<DOLLAR>>
  /\ result = MissingHeader

\* C4: the search succeeds only on the marker: the nine bytes that end at the
\* position it returns are 24 42 4F 4F 54 45 46 49 24, and the stream stands
\* at that position
C4_NoFalseMatch ==
  found = "Some" =>
    /\ read_pos >= INFO_HEADER_LEN
    /\ SubSeq(file, read_pos - 8, read_pos) = <<36, 66, 79, 79, 84, 69, 70, 73, 36>>
    /\ pc = "read_block" => pos = read_pos

\* success after a window that starts with '$' at offset 0 was rejected
C4_Witness ==
  /\ found = "Some"
  /\ pc = "read_block"
  /\ SubSeq(file, 1, INFO_HEADER_LEN) = NearMarkerSecond
  /\ read_pos = 2 * INFO_HEADER_LEN

(***************************************************************************)
(* Bytes and strings                                                        *)
(***************************************************************************)
\* the UTF-8 bytes a String holds for the scalar value c
EncodeChar(c) ==
  IF c < 128 THEN <<c>>
  ELSE IF c < 2048 THEN <<192 + (c \div 64), 128 + (c % 64)>>
  ELSE IF c < 65536 THEN
    <<224 + (c \div 4096), 128 + ((c \div 64) % 64), 128 + (c % 64)>>
  ELSE <<240 + (c \div 262144), 128 + ((c \div 4096) % 64),
         128 + ((c \div 64) % 64), 128 + (c % 64)>>

RECURSIVE Utf8Bytes(_)
\* the bytes of the String s
Utf8Bytes(s) == IF s = <<>> THEN <<>> ELSE EncodeChar(s[1]) \o Utf8Bytes(Tail(s))

\* the bytes of b in front of its first NUL byte, all of b when it has none
BytesBeforeNul(b) ==
  LET nuls == {i \in 1..Len(b) : b[i] = 0}
  IN IF nuls = {} THEN b
     ELSE SubSeq(b, 1, (CHOOSE i \in nuls : \A j \in nuls : i <= j) - 1)

RECURSIVE WellFormed(_)
\* b is well-formed UTF-8: a run of complete, valid sequences
WellFormed(b) ==
  b = <<>> \/ (Utf8Step(b).valid /\ WellFormed(Drop(b, Utf8Step(b).len)))

\* the file is the marker followed by exactly one full block
MarkerPlusBlock == Len(file) = INFO_HEADER_LEN + BIOS_INFO_SIZE /\ MarkerAt(file, 1)

\* the bytes of the block (which starts right after the marker at offset 0)
\* at offsets off .. off + len - 1
BlockWindow(off, len) ==
  SubSeq(file, INFO_HEADER_LEN + off + 1, INFO_HEADER_LEN + off + len)

\* C5 as claimed: each string field holds exactly the bytes of its window up
\* to the first NUL byte
C5_FieldsEqualBytes ==
  (Returned /\ MarkerPlusBlock) =>
    /\ result.kind = "Ok"
    /\ Utf8Bytes(result.board_name) = BytesBeforeNul(BlockWindow(5, 60))
    /\ Utf8Bytes(result.brand) = BytesBeforeNul(BlockWindow(65, 20))
    /\ Utf8Bytes(result.build_number) = BytesBeforeNul(BlockWindow(97, 14))
    /\ Utf8Bytes(result.expected_name) = BytesBeforeNul(BlockWindow(136, 12))

\* the field decoded from window w is the lossy decoding of w's bytes up to the
\* first NUL byte, and holds those very bytes when they are well-formed UTF-8
FieldIs(s, w) ==
  /\ s = from_utf8_lossy(BytesBeforeNul(w))
  /\ WellFormed(BytesBeforeNul(w)) => Utf8Bytes(s) = BytesBeforeNul(w)

\* C5: for the marker followed by a full block, each string field is decoded
\* from the bytes of its own window (0x05/60, 0x41/20, 0x61/14, 0x88/12) up to
\* the first NUL byte: equal to those bytes when they are well-formed UTF-8,
\* with U+FFFD in place of every ill-formed sequence otherwise
C5_FieldsLossyDecoded ==
  (Returned /\ MarkerPlusBlock) =>
    /\ result.kind = "Ok"
    /\ FieldIs(result.board_name, BlockWindow(5, 60))
    /\ FieldIs(result.brand, BlockWindow(65, 20))
    /\ FieldIs(result.build_number, BlockWindow(97, 14))
    /\ FieldIs(result.expected_name, BlockWindow(136, 12))

\* board "A\0B" decodes to "A"; the brand window holds no NUL and starts with
\* the invalid byte FF: it is kept whole, with U+FFFD for that byte
C5_Witness ==
  /\ Returned
  /\ MarkerPlusBlock
  /\ SubSeq(BlockWindow(5, 60), 1, 3) = <<65, 0, 66>>
  /\ result.board_name = <<65>>
  /\ 0 \notin {BlockWindow(65, 20)[i] : i \in 1..20}
  /\ BlockWindow(65, 20)[1] = 255
  /\ Len(result.brand) = 20
  /\ result.brand[1] = REPLACEMENT_CHARACTER

(***************************************************************************)
(* The date field                                                           *)
(***************************************************************************)
\* the text of the date window: its characters up to the first NUL
DateText(w) == from_utf8_lossy(BytesBeforeNul(w))

\* t is dd/dd/dddd, ten characters, and names a day of the calendar
StrictDate(t) ==
  /\ Len(t) = 10
  /\ \A i \in {1, 2, 4, 5, 7, 8, 9, 10} : IsDigit(t[i])
  /\ t[3] = 47 /\ t[6] = 47
  /\ DigitsValue(SubSeq(t, 1, 2)) \in 1..12
  /\ DigitsValue(SubSeq(t, 4, 5)) \in
       1..DaysInMonth(DigitsValue(SubSeq(t, 7, 10)), DigitsValue(SubSeq(t, 1, 2)))

\* the positions of '/' in t
Slashes(t) == {i \in 1..Len(t) : t[i] = 47}

\* t is month/day/year written with 1-2, 1-2 and 1-4 digits and nothing else,
\* and names a day of the calendar; LenientDateOf(t) is that day
LenientParts(t) ==
  LET a == CHOOSE i \in Slashes(t) : \A j \in Slashes(t) : i <= j
      b == CHOOSE i \in Slashes(t) : \A j \in Slashes(t) : i >= j
  IN <<SubSeq(t, 1, a - 1), SubSeq(t, a + 1, b - 1), SubSeq(t, b + 1, Len(t))>>

AllDigits(t) == \A i \in 1..Len(t) : IsDigit(t[i])

LenientDateOf(t) ==
  LET p == LenientParts(t)
  IN [y |-> DigitsValue(p[3]), m |-> DigitsValue(p[1]), d |-> DigitsValue(p[2])]

LenientDate(t) ==
  /\ Cardinality(Slashes(t)) = 2
  /\ LET p == LenientParts(t)
     IN /\ AllDigits(p[1]) /\ Len(p[1]) \in 1..2
        /\ AllDigits(p[2]) /\ Len(p[2]) \in 1..2
        /\ AllDigits(p[3]) /\ Len(p[3]) \in 1..4
        /\ LenientDateOf(t).m \in 1..12
        /\ LenientDateOf(t).d \in 1..DaysInMonth(LenientDateOf(t).y, LenientDateOf(t).m)

\* the text holds no white space and no sign character
PlainText(t) == \A i \in 1..Len(t) : ~IsSpace(t[i]) /\ t[i] \notin {43, 45}

\* the bytes read into info_chunk that make up the date window
DateWindow == SubSeq(info_chunk, DATE_OFFSET + 1, DATE_OFFSET + DATE_LEN)

\* info_chunk with "01/02/2020" in the date window
WithValidDate(chunk) ==
  [i \in 1..Len(chunk) |->
     IF i \in (DATE_OFFSET + 1)..(DATE_OFFSET + DATE_LEN)
     THEN DateJan2[i - DATE_OFFSET] ELSE chunk[i]]

\* C6 as claimed: the record holds the date of the window when its ten bytes
\* are a valid MM/DD/YYYY date, and the default date for every other content
C6_StrictDateOrDefault ==
  (Returned /\ result.kind = "Ok") =>
    result.build_date =
      IF StrictDate(DateWindow)
      THEN [y |-> DigitsValue(SubSeq(DateWindow, 7, 10)),
            m |-> DigitsValue(SubSeq(DateWindow, 1, 2)),
            d |-> DigitsValue(SubSeq(DateWindow, 4, 5))]
      ELSE DefaultDate

\* C6: once the string slices have succeeded (148 bytes or more were read) a
\* record is returned whatever the date window holds; "01/02/2020" gives
\* January 2, 2020; a window whose text up to the first NUL (free of white
\* space and signs) is month/day/year in 1-2, 1-2 and 1-4 digits naming a real
\* day gives that day, so also "1/2/2020" followed by NULs; every other such
\* window gives the default date 1970-01-01; and the four string fields are
\* what they are with a valid date in the window
C6_DateLenientOrDefault ==
  (Returned /\ found = "Some" /\ Len(info_chunk) >= CAP_NAME_OFFSET + CAP_NAME_LEN) =>
    /\ result.kind = "Ok"
    /\ DateWindow = DateJan2 => result.build_date = [y |-> 2020, m |-> 1, d |-> 2]
    /\ StrictDate(DateWindow) => LenientDate(DateText(DateWindow))
    /\ PlainText(DateText(DateWindow)) =>
         result.build_date =
           IF LenientDate(DateText(DateWindow))
           THEN LenientDateOf(DateText(DateWindow))
           ELSE DefaultDate
    /\ LET other == DecodeFields(WithValidDate(info_chunk))
       IN /\ result.board_name = other.board_name
          /\ result.brand = other.brand
          /\ result.build_number = other.build_number
          /\ result.expected_name = other.expected_name

\* the window "1/2/2020" followed by two NULs has been decoded to January 2, 2020
C6_Witness ==
  /\ Returned
  /\ result.kind = "Ok"
  /\ DateWindow = <<49, 47, 50, 47, 50, 48, 50, 48, 0, 0>>
  /\ result.build_date = [y |-> 2020, m |-> 1, d |-> 2]

(***************************************************************************)
(* The validator                                                            *)
(***************************************************************************)
\* C7: validate_file returns the failure of the first check that fails, in
\* the order metadata, regular file, size: Metadata whenever the metadata is
\* unreadable, NotRegularFile for every readable non-regular entry whatever
\* its size, FileTooLarge only for a regular file, Ok exactly when all pass
C7_ChecksInOrder ==
  validation # "none" =>
    /\ validation = "Metadata" <=> ~meta.meta_ok
    /\ validation = "NotRegularFile" <=> (meta.meta_ok /\ ~meta.is_file)
    /\ validation = "FileTooLarge" <=>
         (meta.meta_ok /\ meta.is_file /\ meta.len > MAX_FILE_SIZE)
    /\ validation = "Ok" <=>
         (meta.meta_ok /\ meta.is_file /\ meta.len <= MAX_FILE_SIZE)

\* a directory entry larger than the ceiling is reported as not regular
C7_Witness ==
  /\ validation = "NotRegularFile"
  /\ meta.meta_ok
  /\ meta.len > MAX_FILE_SIZE

\* C8: a regular file passes up to and including 157,286,400 bytes and is
\* FileTooLarge from 157,286,401 bytes on
C8_CeilingInclusive ==
  (validation # "none" /\ meta.meta_ok /\ meta.is_file) =>
    /\ meta.len \in 0..157286400 => validation = "Ok"
    /\ meta.len >= 157286401 => validation = "FileTooLarge"

\* a regular file of exactly 150 MiB has passed
C8_Witness ==
  /\ validation = "Ok"
  /\ meta.is_file
  /\ meta.len = 150 * 1048576

(***************************************************************************)
(* Read errors and repeated parsing                                         *)
(***************************************************************************)
\* C9: a read error other than end of stream ends the call with an I/O error
\* value; the scan does not go on after it
C9_ReadErrorSurfaced ==
  io_failed => (pc = "done" /\ result = IoError)

C13_ResumeAtNextByte ==
  [][(pc = "window" /\ pc' = "probe") => pos' = pos + 1]_vars

\* C14: on error-free reads the search terminates with a match or with end of
\* stream; the position goes back only in the one-byte step after a '$' probe;
\* an iteration that reads a non-'$' byte, and an iteration that reads a window
\* (it began at the offset the stream has at pc = "window"), ends at a greater
\* position than it began; on a match the value returned is the stream
\* position, the offset right after the marker matched
C14_ScanTerminates ==
  /\ [][/\ pos' < pos =>
             (pc = "seek_back" /\ mini_buf = <<DOLLAR>> /\ pos' = pos - 1)
        /\ (pc = "probe" /\ pc' = "probe") => pos' > pos
        /\ pc = "window" => pos' > pos
        /\ (found # "Some" /\ found' = "Some") =>
             (read_pos' = pos' /\ MarkerAt(file, pos' - INFO_HEADER_LEN + 1))]_vars
  /\ (pc = "from_file") ~> (found \in {"Some", "None"} /\ pc \in {"read_block", "done"})

\* a search that stepped back, rejected a window and later matched
C14_Witness ==
  /\ found = "Some"
  /\ pc = "read_block"
  /\ read_pos = pos
  /\ pos > 2 * INFO_HEADER_LEN
  /\ file[1] = DOLLAR

\* the five field windows as <<offset, length>>
FieldWindows ==
  {<<BOARD_NAME_OFFSET, BOARD_NAME_LEN>>, <<BRAND_NAME_OFFSET, BRAND_NAME_LEN>>,
   <<DATE_OFFSET, DATE_LEN>>, <<BUILD_NUMBER_OFFSET, BUILD_NUMBER_LEN>>,
   <<CAP_NAME_OFFSET, CAP_NAME_LEN>>}

\* C15: the five windows are pairwise disjoint and inside [0, 158), and when
\* from_file slices info_chunk every window lies inside the bytes read
C15_SlicesInsideChunk ==
  /\ \A w \in FieldWindows : w[1] >= 0 /\ w[1] + w[2] <= 158
  /\ \A v, w \in FieldWindows :
       v # w => (v[1] + v[2] <= w[1] \/ w[1] + w[2] <= v[1])
  /\ pc = "decode" => \A w \in FieldWindows : w[1] + w[2] <= Len(info_chunk)

(***************************************************************************)
(* The callers                                                              *)
(***************************************************************************)
\* the handle is inside BiosInfo::from_file
InFromFile ==
  pc \in {"from_file", "probe", "seek_back", "window", "read_block", "decode"}

\* C11: in the GUI's SelectFile handler and in the command line tool,
\* from_file runs on a handle only after the validator ran on that handle and
\* returned success: from_file is entered only by the step that validates the
\* open handle with the answer Ok, and while it runs, and once it has returned
\* something, the validation of the handle is Ok; a dismissed dialog, a
\* missing path or a failed open leaves no handle, and a failed validation
\* leads to the end of the attempt without from_file.
C11_ValidateBeforeExtract ==
  /\ [](InFromFile => validation = "Ok")
  /\ [](result # NoRecord("none") => validation = "Ok")
  /\ [][/\ (~InFromFile /\ InFromFile') =>
             /\ pc = "validate" /\ validation = "none" /\ validation' = "Ok"
             /\ pc' = "from_file" /\ file' = file /\ meta' = meta /\ pos' = pos
        /\ (pc = "closed" /\ pc' # "closed") =>
             (pc' = "validate" /\ validation' = "none")
        /\ (pc = "validate" /\ validation' # "Ok") => pc' = "done"
        /\ (pc = "done" /\ pc' # "done") => pc' = "closed"]_vars

C11_Witness ==
  /\ prog = "gui"
  /\ pc = "decode"
  /\ validation = "Ok"
  /\ sel = [dir |-> 1, name |-> NameB]
  /\ bios_info.expected_name = NameA

\* what from_file returns for a file with the bytes c
ParsedRecord(c) ==
  IF ContainsMarker(c)
  THEN DecodeFields(SubSeq(c, FirstMarkerEnd(c) + 1,
                           Min(FirstMarkerEnd(c) + BIOS_INFO_SIZE, Len(c))))
  ELSE MissingHeader

\* the GUI waits for the next message
GuiIdle == prog = "gui" /\ gpc = "idle"

\* C12: between the GUI's handlers, whenever input_path is set a record is
\* stored and it is the record parsed from the file at input_path; and a copy
\* the GUI has called has input_path as its source and, as its destination, a
\* folder joined with the expected_name parsed from that same file.
C12_RecordMatchesInputPath ==
  GuiIdle =>
    /\ input_path # NoPath =>
         /\ bios_info # NoInfo
         /\ bios_info = ParsedRecord(disk[input_path].content)
    /\ last_copy.op = "copy" =>
         /\ last_copy.src = input_path
         /\ last_copy.dst.dir \in Dirs
         /\ last_copy.dst.name =
              ParsedRecord(disk[last_copy.src].content).expected_name

\* the first image was selected and copied, then the second one
C12_Witness ==
  /\ GuiIdle
  /\ disk[[dir |-> 2, name |-> NameA]].kind = "file"
  /\ input_path = [dir |-> 1, name |-> NameB]
  /\ last_copy.op = "copy"
  /\ last_copy.ok
  /\ last_copy.dst = [dir |-> 2, name |-> NameB]

\* C16: validate_file leaves the file and the handle alone: whatever it
\* returns, the step that validates the GUI's handle changes neither the
\* bytes of the file, nor its metadata, nor the files on disk, nor the read
\* position; from_file, entered after a success, begins its search at the
\* position the handle had before the validation, with a zero counter.
C16_ValidateHasNoEffect ==
  [][/\ (prog = "gui" /\ pc = "validate") =>
          /\ validation' \in {"Ok", "Metadata", "NotRegularFile", "FileTooLarge"}
          /\ file' = file /\ meta' = meta /\ disk' = disk /\ pos' = pos
     /\ (prog = "gui" /\ pc = "from_file") =>
          (pc' = "probe" /\ pos' = pos /\ pos' = 0 /\ read_pos' = 0
           /\ file' = file)]_vars

C16_Witness ==
  /\ prog = "gui"
  /\ pc = "probe"
  /\ validation = "Ok"
  /\ pos = 0
  /\ read_pos = 0
  /\ file = FileB

\* a step that ends a SelectFile handler of the GUI
SelectFileEnds == prog = "gui" /\ msg' = "SelectFile" /\ gpc' = "idle"

\* from_file has returned a record to load_input_file
LoadSucceeds ==
  gpc = "select" /\ pc = "done" /\ validation = "Ok" /\ result.kind = "Ok"

\* C17: the stored record changes only when a SelectFile attempt succeeds,
\* and then it becomes the newly parsed record as a whole while input_path is
\* the selected path; an attempt that ends otherwise (dialog dismissed, no
\* path, open failure, validation failure, error from from_file) leaves
\* input_path empty and the stored record as it was.
C17_RecordReplacedOrKept ==
  [][/\ (prog = "gui" /\ bios_info' # bios_info) => (SelectFileEnds /\ LoadSucceeds)
     /\ (SelectFileEnds /\ LoadSucceeds) =>
          /\ bios_info' = result
          /\ bios_info' = ParsedRecord(disk[sel].content)
          /\ input_path' = sel
          /\ sel \in Paths
     /\ (SelectFileEnds /\ ~LoadSucceeds) =>
          (input_path' = NoPath /\ bios_info' = bios_info)]_vars

\* a failed attempt after a successful one: the path is gone, the record of
\* the first image is still stored
C17_Witness ==
  /\ GuiIdle
  /\ msg = "SelectFile"
  /\ alert = MissingHeader.kind
  /\ input_path = NoPath
  /\ bios_info = ParsedRecord(FileA)

\* a step that is a run of the CopyAndRename handler of the GUI
CopyHandlerRuns == prog = "gui" /\ gpc = "idle" /\ msg' = "CopyAndRename"

\* C18: the CopyAndRename handler calls the copy only if input_path is set, a
\* record is stored, a folder was chosen whose metadata is readable and not
\* read-only, and the folder joined with the record's expected_name differs
\* from input_path; without a copy nothing on disk changes, and no other step
\* of the GUI changes the disk; with a record stored and input_path empty the
\* handler shows "Input file must be selected." and writes nothing.
C18_CopyOnlyWhenAllowed ==
  [][/\ (CopyHandlerRuns /\ last_copy'.op # "none") =>
          /\ last_copy'.op = "copy"
          /\ input_path # NoPath
          /\ bios_info # NoInfo
          /\ last_copy'.src = input_path
          /\ last_copy'.dst.dir \in Dirs
          /\ FolderMeta(last_copy'.dst.dir).meta_ok
          /\ ~FolderMeta(last_copy'.dst.dir).readonly
          /\ last_copy'.dst.name = bios_info.expected_name
          /\ last_copy'.dst # input_path
     /\ (prog = "gui" /\ disk' # disk) =>
          (CopyHandlerRuns /\ last_copy'.op = "copy" /\ last_copy'.ok)
     /\ (CopyHandlerRuns /\ bios_info # NoInfo /\ input_path = NoPath) =>
          /\ alert' = "Input file must be selected."
          /\ last_copy' = NoCopy
          /\ disk' = disk]_vars

\* the button was pressed with a record stored and no input path
C18_Witness ==
  /\ GuiIdle
  /\ msg = "CopyAndRename"
  /\ alert = "Input file must be selected."
  /\ bios_info # NoInfo
  /\ input_path = NoPath
  /\ last_copy = NoCopy
  /\ disk[[dir |-> 2, name |-> NameA]].kind = "file"

====
